---- MODULE Spec2Model ----
(***************************************************************************)
(* gi_cleaner (src/src/gi_cleaner/main.py): collect the .gitignore files   *)
(* of a tree, classify every file and directory against them, report, and  *)
(* delete the ignored items after confirmation.                            *)
(*                                                                         *)
(* A path is the sequence of its components below the root directory, so   *)
(* the root directory is <<>>.  A string handed to the matcher is a record *)
(* [parts, slash]: the components joined by "/" and whether a trailing "/" *)
(* was appended.                                                           *)
(***************************************************************************)
EXTENDS Integers, Sequences, FiniteSets, TLC

\* ---------------------------------------------------------------- bounds
MaxDirs == 2       \* directories below the root
MaxRules == 2      \* directories that hold a .gitignore file
MaxFaults == 1     \* filesystem faults the environment injects in one run
MaxList == 2       \* length of the directory list handed to delete_items alone

\* ----------------------------------------------------------- file system
DirNames == {"a", "b", ".git"}
GITIGNORE == ".gitignore"
GIT == ".git"
PlainFile == "f"
Patterns == {"*", "a/", "/b"}

root_directory == <<>>

\* Every tree of at most k directories below the root.
RECURSIVE TreesUpTo(_)
TreesUpTo(k) ==
    IF k = 0 THEN {{}}
    ELSE LET smaller == TreesUpTo(k - 1)
         IN  smaller \cup
             UNION {{t \cup {Append(p, n)} :
                        p \in t \cup {root_directory},
                        n \in DirNames} : t \in smaller}

Trees == TreesUpTo(MaxDirs)

\* The contents of the .gitignore files: directory -> the pattern it holds.
RuleFiles(t) ==
    UNION {[R -> Patterns] :
              R \in {S \in SUBSET (t \cup {root_directory}) : Cardinality(S) <= MaxRules}}

parent(p) == SubSeq(p, 1, Len(p) - 1)
name(p) == p[Len(p)]
IsPrefix(d, p) == Len(d) <= Len(p) /\ SubSeq(p, 1, Len(d)) = d
IsStrictPrefix(d, p) == Len(d) < Len(p) /\ SubSeq(p, 1, Len(d)) = d
relative_to(p, d) == SubSeq(p, Len(d) + 1, Len(p))
str(p) == [parts |-> p, slash |-> FALSE]
WithSlash(s) == [s EXCEPT !.slash = TRUE]

\* Every enumeration of a finite set: the orders a directory listing can have.
RECURSIVE Perms(_)
Perms(S) ==
    IF S = {} THEN {<<>>}
    ELSE UNION {{<<x>> \o q : q \in Perms(S \ {x})} : x \in S}

Range(s) == {s[k] : k \in 1..Len(s)}

\* --------------------------------------------------------------- matcher
\* pathspec's gitwildmatch for the three patterns of Patterns.
match_file(spec, s) ==
    CASE spec = "*"  -> Len(s.parts) > 0
      [] spec = "a/" -> \E k \in 1..Len(s.parts) :
                            s.parts[k] = "a" /\ (k < Len(s.parts) \/ s.slash)
      [] spec = "/b" -> Len(s.parts) > 0 /\ s.parts[1] = "b"
      [] OTHER       -> FALSE

\* ------------------------------------------------------------ classifier
\* The loop of is_file_ignored / is_directory_ignored: one scope per
\* component of `parts`, starting at current_check_dir, stopping at a match.
RECURSIVE ScopeLoop(_, _, _, _, _)
ScopeLoop(path, current_check_dir, parts, specs, asDirectory) ==
    IF parts = <<>> THEN [hit |-> FALSE, current_check_dir |-> current_check_dir]
    ELSE LET relative_path == str(relative_to(path, current_check_dir))
             matched ==
                 /\ current_check_dir \in DOMAIN specs
                 /\ IF asDirectory
                    THEN \/ match_file(specs[current_check_dir],
                                       WithSlash(relative_path))
                         \/ match_file(specs[current_check_dir], relative_path)
                    ELSE match_file(specs[current_check_dir], relative_path)
         IN  IF matched
             THEN [hit |-> TRUE, current_check_dir |-> current_check_dir]
             ELSE ScopeLoop(path, Append(current_check_dir, Head(parts)), Tail(parts),
                            specs, asDirectory)

is_file_ignored(file_path, root, specs) ==
    LET relative_to_root == relative_to(file_path, root)
        loop == ScopeLoop(file_path, root, parent(relative_to_root),
                          specs, FALSE)
        file_parent == parent(file_path)
    IN  \/ loop.hit
        \* the final directory
        \/ /\ loop.current_check_dir \in DOMAIN specs
           /\ match_file(specs[loop.current_check_dir],
                         str(relative_to(file_path, loop.current_check_dir)))
        \* the file's own directory
        \/ /\ file_parent \in DOMAIN specs
           /\ match_file(specs[file_parent], str(<<name(file_path)>>))

\* is_directory_ignored testing the bare relative path only.
is_directory_ignored_BareOnly(dir_path, root, specs) ==
    ScopeLoop(dir_path, root, relative_to(dir_path, root), specs, FALSE).hit

is_directory_ignored(dir_path, root, specs) ==
    ScopeLoop(dir_path, root, relative_to(dir_path, root), specs, TRUE).hit

\* ----------------------------------------------------------------- state
VARIABLES
    root_kind,            \* what the target path is: "missing", "file" or "dir"
    dirs,                 \* the directories below the root
    files,                \* the files of the tree, .gitignore files included
    content,              \* directory -> pattern of the .gitignore file written there
    faults,               \* filesystem faults injected so far
    dry_run, yes,         \* args.dry_run, args.yes
    pc,                   \* position in main / find_ignored_files / delete_items
    gitignore_specs,      \* the rule map of collect_all_gitignore_specs
    opened,               \* the .gitignore files opened by load_gitignore_patterns
    stack,                \* os.walk: directories still to be yielded, next one first
    ignored_files, ignored_directories, skip_directories,
    reported,             \* display_ignored_items has printed
    answer,               \* confirm_deletion: "none", "yes" or "no"
    dry_run_arg,          \* delete_items' dry_run parameter
    i,                    \* index of the running loop of delete_items
    sorted_directories,
    deleted_files, deleted_directories,
    unlink_calls, rmtree_calls,   \* the removal calls issued: [path, ok]
    exit_code,            \* main's return value, -1 while it runs
    run,                  \* which scan of the same tree this is
    cleaned,              \* delete_items ran between the two scans
    first_files, first_directories,   \* what the first scan returned
    query, verdict        \* a path handed to the classifier alone, and its answer

fs == <<root_kind, dirs, files, content, faults>>
args == <<dry_run, yes>>
scan == <<gitignore_specs, opened, stack, ignored_files, ignored_directories,
          skip_directories>>
del == <<dry_run_arg, i, sorted_directories, deleted_files, deleted_directories,
         unlink_calls, rmtree_calls>>
ui == <<reported, answer, exit_code>>
twice == <<run, cleaned, first_files, first_directories>>
ask == <<query, verdict>>
vars == <<fs, args, pc, scan, del, ui, twice, ask>>

gitignore_path(directory) == Append(directory, GITIGNORE)

\* The tree written by the project: every directory holds a plain file, and
\* the directories of DOMAIN rules hold a .gitignore file.
FilesOf(t, rules) ==
    {Append(d, PlainFile) : d \in t \cup {root_directory}}
        \cup {gitignore_path(d) : d \in DOMAIN rules}

ChildDirNames(current_path) == {name(d) : d \in {e \in dirs : parent(e) = current_path}}
ChildFileNames(current_path) == {name(f) : f \in {g \in files : parent(g) = current_path}}

\* ------------------------------------------------------------- collector
load_gitignore_patterns(directory) ==
    IF gitignore_path(directory) \notin files
    THEN [exists |-> FALSE]
    ELSE [exists |-> TRUE, spec |-> content[directory]]

\* os.walk(root_directory) yields the root and every directory below it.
collect_all_gitignore_specs ==
    LET walked == {root_directory} \cup dirs
        keys == {d \in walked : load_gitignore_patterns(d).exists}
    IN  [d \in keys |-> load_gitignore_patterns(d).spec]

\* --------------------------------------------------------------- scanner
\* The walk without the removal of ".git" from the listing.
SkipGit_Kept(directories) == directories

\* "Skip .git directory": directories.remove(".git")
SkipGit(directories) ==
    IF GIT \in Range(directories)
    THEN SelectSeq(directories, LAMBDA n : n # GIT)
    ELSE directories

\* An ignored directory listed but left on the walk.
MarkIgnored_NoPrune(acc, dir_path, dir_name) ==
    [ignored_directories |-> Append(acc.ignored_directories, dir_path),
     skip_directories    |-> acc.skip_directories,
     dirs_to_remove      |-> acc.dirs_to_remove]

\* An ignored directory is listed, marked to be skipped and taken off the walk.
MarkIgnored(acc, dir_path, dir_name) ==
    [ignored_directories |-> Append(acc.ignored_directories, dir_path),
     skip_directories    |-> acc.skip_directories \cup {dir_path},
     dirs_to_remove      |-> Append(acc.dirs_to_remove, dir_name)]

\* The loop removing an ignored name from the listing it iterates over: the
\* name after it is passed over.
RECURSIVE CheckDirectories_RemoveInLoop(_, _, _, _)
CheckDirectories_RemoveInLoop(current_path, directories, acc, specs) ==
    IF directories = <<>> THEN acc
    ELSE LET dir_name == Head(directories)
             dir_path == Append(current_path, dir_name)
         IN  IF is_directory_ignored(dir_path, root_directory, specs)
             THEN CheckDirectories_RemoveInLoop(
                      current_path,
                      IF Len(directories) > 1 THEN Tail(Tail(directories)) ELSE <<>>,
                      [ignored_directories |-> Append(acc.ignored_directories, dir_path),
                       skip_directories    |-> acc.skip_directories \cup {dir_path},
                       dirs_to_remove      |-> Append(acc.dirs_to_remove, dir_name)],
                      specs)
             ELSE CheckDirectories_RemoveInLoop(current_path, Tail(directories), acc, specs)

\* "Check directories": the loop over the listing of current_path.
RECURSIVE CheckDirectories(_, _, _, _)
CheckDirectories(current_path, directories, acc, specs) ==
    IF directories = <<>> THEN acc
    ELSE LET dir_name == Head(directories)
             dir_path == Append(current_path, dir_name)
         IN  CheckDirectories(
                 current_path, Tail(directories),
                 IF is_directory_ignored(dir_path, root_directory, specs)
                 THEN MarkIgnored(acc, dir_path, dir_name)
                 ELSE acc,
                 specs)

\* "Remove ignored directories from further traversal"
RemoveIgnored(directories, dirs_to_remove) ==
    SelectSeq(directories, LAMBDA n : n \notin Range(dirs_to_remove))

\* The loop over the files leaving at the first ignored file.
RECURSIVE CheckFiles_Break(_, _, _, _)
CheckFiles_Break(current_path, file_names, acc, specs) ==
    IF file_names = <<>> THEN acc
    ELSE LET file_path == Append(current_path, Head(file_names))
         IN  IF is_file_ignored(file_path, root_directory, specs)
             THEN Append(acc, file_path)
             ELSE CheckFiles_Break(current_path, Tail(file_names), acc, specs)

\* "Check files": the loop over the files of current_path.
RECURSIVE CheckFiles(_, _, _, _)
CheckFiles(current_path, file_names, acc, specs) ==
    IF file_names = <<>> THEN acc
    ELSE LET file_path == Append(current_path, Head(file_names))
         IN  CheckFiles(
                 current_path, Tail(file_names),
                 IF is_file_ignored(file_path, root_directory, specs)
                 THEN Append(acc, file_path)
                 ELSE acc,
                 specs)

\* One iteration of the os.walk loop of find_ignored_files on the listing
\* (listed_dirs, listed_files) of current_path; .directories is what os.walk
\* descends into afterwards.
WalkBody(current_path, listed_dirs, listed_files) ==
    LET directories == SkipGit(listed_dirs)
    IN  IF current_path \in skip_directories
        THEN [directories         |-> <<>>,
              ignored_directories |-> ignored_directories,
              skip_directories    |-> skip_directories,
              ignored_files       |-> ignored_files]
        ELSE LET acc == CheckDirectories(
                            current_path, directories,
                            [ignored_directories |-> ignored_directories,
                             skip_directories    |-> skip_directories,
                             dirs_to_remove      |-> <<>>],
                            gitignore_specs)
             IN  [directories         |-> RemoveIgnored(directories, acc.dirs_to_remove),
                  ignored_directories |-> acc.ignored_directories,
                  skip_directories    |-> acc.skip_directories,
                  ignored_files       |-> CheckFiles(current_path, listed_files,
                                                     ignored_files, gitignore_specs)]

\* find_ignored_files up to the walk: collect the rule map; no rule map, no walk.
\* A .gitignore file that cannot be read ends the run with the I/O error.
Collect ==
    /\ pc = "collect"
    /\ \/ /\ gitignore_specs' = collect_all_gitignore_specs
          /\ opened' = {gitignore_path(d) : d \in DOMAIN collect_all_gitignore_specs}
          /\ ignored_files' = <<>>
          /\ ignored_directories' = <<>>
          /\ skip_directories' = {}
          /\ IF DOMAIN collect_all_gitignore_specs = {}
             THEN pc' = "scanned" /\ stack' = <<>>
             ELSE pc' = "walk" /\ stack' = <<root_directory>>
       \/ /\ DOMAIN collect_all_gitignore_specs # {}
          /\ pc' = "crashed"
          /\ UNCHANGED scan
    /\ UNCHANGED <<fs, args, del, ui, twice, ask>>

Walk ==
    /\ pc = "walk"
    /\ stack # <<>>
    /\ LET current_path == Head(stack)
       IN  \E listed_dirs \in Perms(ChildDirNames(current_path)),
              listed_files \in Perms(ChildFileNames(current_path)) :
               LET r == WalkBody(current_path, listed_dirs, listed_files)
                   next == [k \in 1..Len(r.directories) |->
                               Append(current_path, r.directories[k])] \o Tail(stack)
               IN  /\ ignored_directories' = r.ignored_directories
                   /\ skip_directories' = r.skip_directories
                   /\ ignored_files' = r.ignored_files
                   /\ stack' = next
                   /\ pc' = IF next = <<>> THEN "scanned" ELSE "walk"
    /\ UNCHANGED <<fs, args, gitignore_specs, opened, del, ui, twice, ask>>

\* -------------------------------------------------------------- deletion
\* sorted(ignored_directories, key=lambda p: len(p.parts), reverse=True):
\* a stable sort, deepest first.
RECURSIVE InsertDeepestFirst(_, _)
InsertDeepestFirst(sorted, p) ==
    IF sorted = <<>> THEN <<p>>
    ELSE IF Len(Head(sorted)) >= Len(p)
         THEN <<Head(sorted)>> \o InsertDeepestFirst(Tail(sorted), p)
         ELSE <<p>> \o sorted

RECURSIVE SortedDeepestFirst(_, _)
SortedDeepestFirst(sorted, rest) ==
    IF rest = <<>> THEN sorted
    ELSE SortedDeepestFirst(InsertDeepestFirst(sorted, Head(rest)), Tail(rest))

\* The sort without reverse=True: shallowest first.
RECURSIVE SortedShallowestFirst(_, _)
SortedShallowestFirst(sorted, rest) ==
    IF rest = <<>> THEN sorted
    ELSE SortedShallowestFirst(<<Head(rest)>> \o sorted, Tail(rest))

sorted_by_depth_Ascending(directories) ==
    SortedShallowestFirst(<<>>, SortedDeepestFirst(<<>>, directories))

sorted_by_depth(directories) == SortedDeepestFirst(<<>>, directories)

\* deleted_files += 1 / deleted_directories += 1 sit after the removal call
\* inside the try block.
Counted(count, ok) == IF ok THEN count + 1 ELSE count

\* A failure ending the loop.
Resume_Abort(index, length, ok) == IF ok THEN index + 1 ELSE length + 1

\* except OSError: the message is printed and the loop goes on with the next item.
Resume(index, length, ok) == index + 1

\* shutil.rmtree(dir_path) having succeeded.
DirsAfterRmtree(dir_path) == {d \in dirs : ~IsPrefix(dir_path, d)}
FilesAfterRmtree(dir_path) == {f \in files : ~IsPrefix(dir_path, f)}

DeleteFile ==
    /\ pc = "del_files"
    /\ i <= Len(ignored_files)
    /\ LET file_path == ignored_files[i]
       IN  IF dry_run_arg
           THEN /\ deleted_files' = Counted(deleted_files, TRUE)
                /\ i' = Resume(i, Len(ignored_files), TRUE)
                /\ UNCHANGED <<fs, unlink_calls>>
           ELSE \E ok \in BOOLEAN :
                   \* unlink succeeds only on a file that is there; it fails on a
                   \* missing file, and on a present one by an injected fault
                   /\ ok => file_path \in files
                   /\ (~ok /\ file_path \in files) => faults < MaxFaults
                   /\ faults' = IF ~ok /\ file_path \in files THEN faults + 1 ELSE faults
                   /\ files' = IF ok THEN files \ {file_path} ELSE files
                   /\ unlink_calls' = Append(unlink_calls, [path |-> file_path, ok |-> ok])
                   /\ deleted_files' = Counted(deleted_files, ok)
                   /\ i' = Resume(i, Len(ignored_files), ok)
                   /\ UNCHANGED <<root_kind, dirs, content>>
    /\ UNCHANGED <<args, pc, scan, dry_run_arg, sorted_directories, deleted_directories,
                   rmtree_calls, ui, twice, ask>>

SortDirectories ==
    /\ pc = "del_files"
    /\ i > Len(ignored_files)
    /\ sorted_directories' = sorted_by_depth(ignored_directories)
    /\ i' = 1
    /\ pc' = "del_dirs"
    /\ UNCHANGED <<fs, args, scan, dry_run_arg, deleted_files, deleted_directories,
                   unlink_calls, rmtree_calls, ui, twice, ask>>

DeleteDirectory ==
    /\ pc = "del_dirs"
    /\ i <= Len(sorted_directories)
    /\ LET dir_path == sorted_directories[i]
       IN  IF dry_run_arg
           THEN /\ deleted_directories' = Counted(deleted_directories, TRUE)
                /\ i' = Resume(i, Len(sorted_directories), TRUE)
                /\ UNCHANGED <<fs, rmtree_calls>>
           ELSE \E ok \in BOOLEAN, partial \in BOOLEAN :
                   /\ ok => dir_path \in dirs /\ ~partial
                   /\ (~ok /\ dir_path \in dirs) => faults < MaxFaults
                   /\ partial => dir_path \in dirs
                   /\ faults' = IF ~ok /\ dir_path \in dirs THEN faults + 1 ELSE faults
                   \* a failed rmtree removed nothing, or everything but the
                   \* directory itself
                   /\ dirs' = IF ok THEN DirsAfterRmtree(dir_path)
                              ELSE IF partial THEN DirsAfterRmtree(dir_path) \cup {dir_path}
                              ELSE dirs
                   /\ files' = IF ok \/ partial THEN FilesAfterRmtree(dir_path) ELSE files
                   /\ rmtree_calls' = Append(rmtree_calls, [path |-> dir_path, ok |-> ok])
                   /\ deleted_directories' = Counted(deleted_directories, ok)
                   /\ i' = Resume(i, Len(sorted_directories), ok)
                   /\ UNCHANGED <<root_kind, content>>
    /\ UNCHANGED <<args, pc, scan, dry_run_arg, sorted_directories, deleted_files,
                   unlink_calls, ui, twice, ask>>

ReturnCounts ==
    /\ pc = "del_dirs"
    /\ i > Len(sorted_directories)
    /\ pc' = "returned"
    /\ UNCHANGED <<fs, args, scan, del, ui, twice, ask>>

\* Something outside the program removes a file or a directory of the tree
\* between classification and deletion.
ExternalRemove ==
    /\ pc \in {"scanned", "prompt", "del_files", "del_dirs"}
    /\ faults < MaxFaults
    /\ faults' = faults + 1
    /\ \/ \E f \in files : files' = files \ {f} /\ dirs' = dirs
       \/ \E d \in dirs : dirs' = DirsAfterRmtree(d) /\ files' = FilesAfterRmtree(d)
    /\ UNCHANGED <<root_kind, content, args, pc, scan, del, ui, twice, ask>>

\* ------------------------------------------------------------------ main
\* main without the check for the root .gitignore file.
preconditions_hold_NoRuleFileCheck == root_kind # "missing" /\ root_kind = "dir"

\* The three checks of main before "Scanning directory".
preconditions_hold ==
    /\ root_kind # "missing"                        \* root_directory.exists()
    /\ root_kind = "dir"                            \* root_directory.is_dir()
    /\ gitignore_path(root_directory) \in files     \* (root / ".gitignore").exists()

CheckPreconditions ==
    /\ pc = "start"
    /\ IF preconditions_hold
       THEN pc' = "collect" /\ exit_code' = exit_code
       ELSE pc' = "done" /\ exit_code' = 1
    /\ UNCHANGED <<fs, args, scan, del, reported, answer, twice, ask>>

\* main without the dry-run return.
after_display_NoDryRun ==
    IF ignored_files = <<>> /\ ignored_directories = <<>> THEN "done"
    ELSE IF ~yes THEN "prompt"
    ELSE "del_files"

\* Where main goes after display_ignored_items.
after_display ==
    IF ignored_files = <<>> /\ ignored_directories = <<>> THEN "done"
    ELSE IF dry_run THEN "done"
    ELSE IF ~yes THEN "prompt"
    ELSE "del_files"

\* main calls delete_items(ignored_files, ignored_directories, root_directory):
\* dry_run takes its default, False.
CallDeleteItems ==
    /\ dry_run_arg' = FALSE
    /\ deleted_files' = 0
    /\ deleted_directories' = 0
    /\ i' = 1
    /\ UNCHANGED <<sorted_directories, unlink_calls, rmtree_calls>>

Display ==
    /\ pc = "scanned"
    /\ reported' = TRUE
    /\ pc' = after_display
    /\ exit_code' = IF after_display = "done" THEN 0 ELSE exit_code
    /\ IF after_display = "del_files" THEN CallDeleteItems ELSE UNCHANGED del
    /\ UNCHANGED <<fs, args, scan, answer, twice, ask>>

\* What input() returns once stripped and lowered.
Responses == {"yes", "y", "no", "n", ""}

\* confirm_deletion, one line typed at the prompt.
Confirm ==
    /\ pc = "prompt"
    /\ \E response \in Responses :
          IF response \in {"yes", "y"}
          THEN /\ answer' = "yes"
               /\ pc' = "del_files"
               /\ CallDeleteItems
               /\ UNCHANGED exit_code
          ELSE IF response \in {"no", "n"}
          THEN /\ answer' = "no"
               /\ pc' = "done"
               /\ exit_code' = 0
               /\ UNCHANGED del
          ELSE UNCHANGED <<answer, pc, exit_code, del>>
    /\ UNCHANGED <<fs, args, scan, reported, twice, ask>>

Finish ==
    /\ pc = "returned"
    /\ pc' = "done"
    /\ exit_code' = 0
    /\ UNCHANGED <<fs, args, scan, del, reported, answer, twice, ask>>

\* ------------------------------------------------------- specifications
NoScan ==
    /\ gitignore_specs = <<>>
    /\ opened = {}
    /\ stack = <<>>
    /\ ignored_files = <<>>
    /\ ignored_directories = <<>>
    /\ skip_directories = {}

NoDeletion ==
    /\ dry_run_arg = FALSE
    /\ i = 1
    /\ sorted_directories = <<>>
    /\ deleted_files = 0
    /\ deleted_directories = 0
    /\ unlink_calls = <<>>
    /\ rmtree_calls = <<>>

NoInteraction == reported = FALSE /\ answer = "none" /\ exit_code = -1
FirstRun == run = 1 /\ cleaned = FALSE /\ first_files = <<>> /\ first_directories = <<>>
NoQuery == query = [kind |-> "none", path |-> <<>>] /\ verdict = FALSE

SomeTree ==
    /\ root_kind = "dir"
    /\ \E t \in Trees : \E rules \in RuleFiles(t) :
          /\ dirs = t
          /\ content = rules
          /\ files = FilesOf(t, rules)
    /\ faults = 0

\* One run of main.
Init ==
    /\ root_kind \in {"missing", "file", "dir"}
    /\ IF root_kind = "dir"
       THEN SomeTree
       ELSE dirs = {} /\ files = {} /\ content = <<>> /\ faults = 0
    /\ dry_run \in BOOLEAN
    /\ yes \in BOOLEAN
    /\ pc = "start"
    /\ NoScan /\ NoDeletion /\ NoInteraction /\ FirstRun /\ NoQuery

Next ==
    \/ CheckPreconditions
    \/ Collect
    \/ Walk
    \/ Display
    \/ Confirm
    \/ ExternalRemove
    \/ DeleteFile
    \/ SortDirectories
    \/ DeleteDirectory
    \/ ReturnCounts
    \/ Finish

Spec == Init /\ [][Next]_vars

\* find_ignored_files twice on the same tree, delete_items in between or not.
CleanFirst ==
    /\ pc = "scanned"
    /\ run = 1
    /\ ~cleaned
    /\ cleaned' = TRUE
    /\ pc' = "del_files"
    /\ CallDeleteItems
    /\ UNCHANGED <<fs, args, scan, ui, run, first_files, first_directories, ask>>

ScanAgain ==
    /\ pc \in {"scanned", "returned"}
    /\ run = 1
    /\ run' = 2
    /\ first_files' = ignored_files
    /\ first_directories' = ignored_directories
    /\ pc' = "collect"
    /\ UNCHANGED <<fs, args, scan, del, ui, cleaned, ask>>

InitScan ==
    /\ SomeTree
    /\ dry_run = FALSE
    /\ yes = FALSE
    /\ pc = "collect"
    /\ NoScan /\ NoDeletion /\ NoInteraction /\ FirstRun /\ NoQuery

NextScan ==
    \/ Collect
    \/ Walk
    \/ CleanFirst
    \/ DeleteFile
    \/ SortDirectories
    \/ DeleteDirectory
    \/ ReturnCounts
    \/ ScanAgain

SpecScan == InitScan /\ [][NextScan]_vars

\* delete_items alone, on any two lists.
SeqsUpTo(S, n) == UNION {[1..k -> S] : k \in 0..n}

InitDelete ==
    /\ root_kind = "dir"
    /\ dirs \in Trees
    /\ content = <<>>
    /\ files = FilesOf(dirs, content)
    /\ faults = 0
    /\ dry_run = FALSE
    /\ yes = FALSE
    /\ pc = "del_files"
    /\ gitignore_specs = <<>>
    /\ opened = {}
    /\ stack = <<>>
    /\ ignored_files \in {<<>>} \cup {<<f>> : f \in files}
    /\ ignored_directories \in SeqsUpTo(dirs, MaxList)
    /\ skip_directories = {}
    /\ dry_run_arg \in BOOLEAN
    /\ i = 1
    /\ sorted_directories = <<>>
    /\ deleted_files = 0
    /\ deleted_directories = 0
    /\ unlink_calls = <<>>
    /\ rmtree_calls = <<>>
    /\ NoInteraction /\ FirstRun /\ NoQuery

NextDelete ==
    \/ DeleteFile
    \/ SortDirectories
    \/ DeleteDirectory
    \/ ReturnCounts

SpecDelete == InitDelete /\ [][NextDelete]_vars

\* The classifier alone, on any path of a tree and any rule map over it.
Classify ==
    /\ pc = "ask"
    /\ verdict' = IF query.kind = "file"
                  THEN is_file_ignored(query.path, root_directory, gitignore_specs)
                  ELSE is_directory_ignored(query.path, root_directory, gitignore_specs)
    /\ pc' = "answered"
    /\ UNCHANGED <<fs, args, scan, del, ui, twice, query>>

InitClassify ==
    /\ SomeTree
    /\ dry_run = FALSE
    /\ yes = FALSE
    /\ pc = "ask"
    /\ gitignore_specs = content
    /\ opened = {}
    /\ stack = <<>>
    /\ ignored_files = <<>>
    /\ ignored_directories = <<>>
    /\ skip_directories = {}
    /\ NoDeletion /\ NoInteraction /\ FirstRun
    /\ query \in [kind : {"file"}, path : files] \cup [kind : {"dir"}, path : dirs]
    /\ verdict = FALSE

NextClassify == Classify

SpecClassify == InitClassify /\ [][NextClassify]_vars

\* ---------------------------------------------------------------- claims
Listed == Range(ignored_files) \cup Range(ignored_directories)
WouldMatch(p) ==
    \/ p \in files /\ is_file_ignored(p, root_directory, gitignore_specs)
    \/ p \in dirs /\ is_directory_ignored(p, root_directory, gitignore_specs)
Paths(calls) == [k \in DOMAIN calls |-> calls[k].path]
OkCount(calls) == Cardinality({k \in DOMAIN calls : calls[k].ok})
AllOk == /\ \A k \in DOMAIN unlink_calls : unlink_calls[k].ok
         /\ \A k \in DOMAIN rmtree_calls : rmtree_calls[k].ok
RemovalCalls == Len(unlink_calls) + Len(rmtree_calls)
\* The tree as main found it: a directory with a .gitignore file at its top.
StartOK == root_kind = "dir" /\ root_directory \in DOMAIN content

\* C1: no strict descendant of a directory of the ignored-directories list is
\* in the ignored-files list or in the ignored-directories list, also when the
\* descendant matches a rule itself.
C1_Containment ==
    \A D \in Range(ignored_directories) : \A p \in Listed : ~IsStrictPrefix(D, p)

C1_Witness ==
    /\ pc = "scanned"
    /\ run = 1
    /\ \E D \in Range(ignored_directories) : \E p \in dirs \cup files :
          IsStrictPrefix(D, p) /\ WouldMatch(p)

\* C2: is_file_ignored / is_directory_ignored answer true exactly when some
\* directory from the root down to the path's parent has a rule-map entry whose
\* matcher matches the path relative to it (for a directory: bare or with a
\* trailing "/"); so no deeper scope undoes a shallower match, and a path with
\* no entry on its chain is not ignored.
Chain(p) == {SubSeq(p, 1, k) : k \in 0..(Len(p) - 1)}
ScopeMatches(d, p, asDirectory) ==
    /\ d \in DOMAIN gitignore_specs
    /\ \/ match_file(gitignore_specs[d], str(relative_to(p, d)))
       \/ asDirectory /\ match_file(gitignore_specs[d], WithSlash(str(relative_to(p, d))))

C2_Disjunction ==
    pc = "answered" =>
        verdict = (\E d \in Chain(query.path) :
                       ScopeMatches(d, query.path, query.kind = "dir"))

C2_Witness ==
    /\ pc = "answered"
    /\ verdict
    /\ \E shallow \in Chain(query.path), deep \in Chain(query.path) :
          /\ Len(shallow) < Len(deep)
          /\ ScopeMatches(shallow, query.path, query.kind = "dir")
          /\ deep \in DOMAIN gitignore_specs
          /\ ~ScopeMatches(deep, query.path, query.kind = "dir")

\* C3: the rule map has no key that is a directory named ".git" or one below
\* it, and no .gitignore file located there is opened.
C3_GitNotCollected ==
    /\ \A d \in DOMAIN gitignore_specs : GIT \notin Range(d)
    /\ \A f \in opened : GIT \notin Range(f)

\* C4: no directory named ".git", and nothing below one, is in the
\* ignored-files list or the ignored-directories list.
C4_GitNeverListed == \A p \in Listed : GIT \notin Range(p)

C4_Witness ==
    /\ pc = "scanned"
    /\ run = 1
    /\ Listed # {}
    /\ \E g \in dirs :
          /\ name(g) = GIT
          /\ WouldMatch(g)
          /\ WouldMatch(Append(g, PlainFile))
          /\ \A D \in Range(ignored_directories) : ~IsPrefix(D, g)

\* C5: delete_items issues the directory removals in non-increasing order of
\* depth, so a directory is never removed before a directory below it.
C5_DeepestFirst ==
    \A j \in DOMAIN rmtree_calls, k \in DOMAIN rmtree_calls :
        j < k => /\ Len(rmtree_calls[j].path) >= Len(rmtree_calls[k].path)
                 /\ ~IsStrictPrefix(rmtree_calls[j].path, rmtree_calls[k].path)

C5_Witness ==
    /\ pc = "returned"
    /\ Len(rmtree_calls) = Len(ignored_directories)
    /\ AllOk
    /\ \E j \in DOMAIN ignored_directories, k \in DOMAIN ignored_directories :
          j < k /\ IsStrictPrefix(ignored_directories[j], ignored_directories[k])

\* C6: once delete_items has returned, every listed file and every listed
\* directory had exactly one removal attempt whatever failed before it, the
\* two counts are the numbers of attempts that succeeded, and main exits 0.
C6_FailureIsolation ==
    (pc = "returned" \/ (pc = "done" /\ RemovalCalls > 0)) =>
        /\ Paths(unlink_calls) = ignored_files
        /\ Len(rmtree_calls) = Len(ignored_directories)
        /\ Range(Paths(rmtree_calls)) = Range(ignored_directories)
        /\ Cardinality(Range(Paths(rmtree_calls))) = Len(rmtree_calls)
        /\ deleted_files = OkCount(unlink_calls)
        /\ deleted_directories = OkCount(rmtree_calls)
        /\ pc = "done" => exit_code = 0

C6_Witness ==
    /\ pc = "done"
    /\ exit_code = 0
    /\ \E j \in DOMAIN unlink_calls, k \in DOMAIN unlink_calls :
          j < k /\ ~unlink_calls[j].ok /\ unlink_calls[k].ok
    /\ \E k \in DOMAIN rmtree_calls : rmtree_calls[k].ok

\* C7 as stated: a removal call is issued only without the dry-run flag and
\* with the yes flag or a yes at the prompt; every run with the dry-run flag,
\* and every run the user declines, issues no removal call and exits with
\* code 0 after the report.
C7_Original ==
    /\ RemovalCalls > 0 => ~dry_run /\ (yes \/ answer = "yes")
    /\ (dry_run \/ answer = "no") => RemovalCalls = 0
    /\ (pc = "done" /\ (dry_run \/ answer = "no")) => exit_code = 0 /\ reported

\* C7: a removal call is issued only without the dry-run flag and with the yes
\* flag or a yes at the prompt; a run with the dry-run flag, and a run the
\* user declines, issues no removal call, and if it passed the precondition
\* checks and returns, it exits with code 0 after the report.
C7_Consent ==
    /\ RemovalCalls > 0 => ~dry_run /\ (yes \/ answer = "yes")
    /\ (dry_run \/ answer = "no") => RemovalCalls = 0
    /\ (pc = "done" /\ StartOK /\ (dry_run \/ answer = "no")) =>
           exit_code = 0 /\ reported

C7_Witness ==
    /\ pc = "done"
    /\ dry_run
    /\ yes
    /\ StartOK
    /\ ignored_files # <<>>
    /\ ignored_directories # <<>>
    /\ reported
    /\ exit_code = 0

\* C8: a target that is missing, is no directory or has no .gitignore at its
\* top makes main return 1 with no collection, scan, report or deletion
\* started; every other run that returns returns 0.
C8_Refusal ==
    /\ ~StartOK => /\ pc \in {"start", "done"}
                   /\ NoScan /\ NoDeletion /\ ~reported /\ answer = "none"
    /\ pc = "done" => exit_code = IF StartOK THEN 0 ELSE 1

C8_Witness ==
    /\ pc = "done"
    /\ exit_code = 1
    /\ root_kind = "dir"
    /\ DOMAIN content # {}
    /\ root_directory \notin DOMAIN content

\* C9: a second find_ignored_files on the unmodified tree returns the same
\* set of files and the same set of directories as the first, whatever the
\* order of the listings.
C9_SameSets ==
    (pc = "scanned" /\ run = 2 /\ ~cleaned) =>
        /\ Range(ignored_files) = Range(first_files)
        /\ Range(ignored_directories) = Range(first_directories)

C9_Witness ==
    /\ pc = "scanned"
    /\ run = 2
    /\ ~cleaned
    /\ ignored_files # first_files
    /\ ignored_directories # first_directories

\* C10: after delete_items removed everything the first scan listed, a second
\* scan lists nothing, also when .gitignore files and whole directories went.
C10_Converges ==
    (pc = "scanned" /\ run = 2 /\ cleaned /\ AllOk) =>
        ignored_files = <<>> /\ ignored_directories = <<>>

C10_Witness ==
    /\ pc = "scanned"
    /\ run = 2
    /\ cleaned
    /\ AllOk
    /\ first_directories # <<>>
    /\ \E d \in DOMAIN content : gitignore_path(d) \in Range(first_files)
    /\ gitignore_specs # <<>>
    /\ DOMAIN gitignore_specs # DOMAIN content

====
